---- MODULE Spec2Model ----
(***************************************************************************)
(* vconfig-go: versioned configuration files.                              *)
(*                                                                         *)
(* The module models                                                       *)
(*   - the reflection helpers of package vconfig (isStruct, newStructInfo, *)
(*     structInfo.FieldOk, fieldInfo.Kind),                                *)
(*   - the four operations of the core (CheckData, SaveConfig, LoadConfig, *)
(*     GetVersion) over a file system of JSON documents,                   *)
(*   - the basic example (a caller of the four operations) and             *)
(*   - the migration example (caches, RWMutex, loadCreateMigrateConfig),   *)
(*     run by goroutines one statement group at a time.                    *)
(*                                                                         *)
(* Environment: every path names a readable and writable location, so the  *)
(* only failures of the core are the classified ones (not found, decode,   *)
(* validation).  A panic of the Go runtime is the result "panic".          *)
(***************************************************************************)
EXTENDS Naturals, Sequences, FiniteSets, TLC

VARIABLES
    fs,              \* path -> file content
    lastSaved,       \* history: path -> the value of the last successful SaveConfig
    call,            \* history: the last call of a core operation and its outcome
    configMutex,     \* sync.RWMutex: [writer, readers]
    cachedConfigV1,  \* *ConfigV1 (nil or a record)
    cachedConfigV2,  \* *ConfigV2 (nil or a record)
    gor              \* goroutine -> its position and locals in the migration example

vars == <<fs, lastSaved, call, configMutex, cachedConfigV1, cachedConfigV2, gor>>

(***************************************************************************)
(* Bounds                                                                  *)
(***************************************************************************)
NumGoroutines == 2
MaxDepth == 3

Goroutines == 1..NumGoroutines

(***************************************************************************)
(* Types and values as package reflect shows them                          *)
(***************************************************************************)
FieldDef(name, kind, tag) == [name |-> name, kind |-> kind, tag |-> tag]

\* the basic example's configuration struct (no json tags)
AppConfig ==
    << FieldDef("Version", "String", ""),
       FieldDef("AppName", "String", ""),
       FieldDef("Debug", "Bool", ""),
       FieldDef("DatabaseURL", "String", ""),
       FieldDef("MaxRetries", "Int", ""),
       FieldDef("AllowedHosts", "Slice", "") >>

\* the basic example's struct without a Version field
InvalidConfig ==
    << FieldDef("Name", "String", ""),
       FieldDef("Port", "Int", "") >>

ConfigV1CheckpointSkipped ==
    << FieldDef("Version", "String", "version"),
       FieldDef("Roots", "Slice", "roots"),
       FieldDef("Checkpoint", "String", "-") >>

ConfigV1 ==
    << FieldDef("Version", "String", "version"),
       FieldDef("Roots", "Slice", "roots"),
       FieldDef("Checkpoint", "String", "checkpoint") >>

ConfigV2VersionRetagged ==
    << FieldDef("Version", "String", "ver"),
       FieldDef("CreateTime", "Time", "create_time"),
       FieldDef("UpdateTime", "Time", "update_time"),
       FieldDef("Roots", "Slice", "roots"),
       FieldDef("TotalCount", "Int", "total_count"),
       FieldDef("RemainingCount", "Int", "remaining_count"),
       FieldDef("Paths", "Slice", "paths") >>

ConfigV2 ==
    << FieldDef("Version", "String", "version"),
       FieldDef("CreateTime", "Time", "create_time"),
       FieldDef("UpdateTime", "Time", "update_time"),
       FieldDef("Roots", "Slice", "roots"),
       FieldDef("TotalCount", "Int", "total_count"),
       FieldDef("RemainingCount", "Int", "remaining_count"),
       FieldDef("Paths", "Slice", "paths") >>

\* a struct whose Version field is numeric
NumericVersionConfig ==
    << FieldDef("Version", "Int", ""),
       FieldDef("Name", "String", "") >>

StructNames ==
    {"AppConfig", "InvalidConfig", "ConfigV1", "ConfigV2", "NumericVersionConfig"}

StructFields(base) ==
    CASE base = "AppConfig" -> AppConfig
      [] base = "InvalidConfig" -> InvalidConfig
      [] base = "ConfigV1" -> ConfigV1
      [] base = "ConfigV2" -> ConfigV2
      [] base = "NumericVersionConfig" -> NumericVersionConfig
      [] OTHER -> << >>

\* reflect.Type: a base type under ptr levels of pointer
Type(base, ptr) == [base |-> base, ptr |-> ptr]

TypeKind(t) ==
    IF t.ptr > 0 THEN "Ptr"
    ELSE IF t.base \in StructNames THEN "Struct" ELSE t.base

Elem(t) == [t EXCEPT !.ptr = @ - 1]

\* a value of type any.  data holds a struct's fields as <<name, kind, token>>
StructVal(base, data) ==
    [iface |-> "typed", typ |-> Type(base, 0), isNil |-> FALSE, data |-> data]

PtrTo(v) == [v EXCEPT !.typ.ptr = @ + 1]

NilPtr(base) ==
    [iface |-> "typed", typ |-> Type(base, 1), isNil |-> TRUE, data |-> {}]

UntypedNil ==
    [iface |-> "nil", typ |-> Type("none", 0), isNil |-> TRUE, data |-> {}]

Plain(base, token) ==
    [iface |-> "typed", typ |-> Type(base, 0), isNil |-> FALSE,
     data |-> {<<"", base, token>>}]

(***************************************************************************)
(* package vconfig: reflection helpers                                     *)
(***************************************************************************)
isStruct(v) ==
    IF v.iface = "nil" THEN FALSE
    ELSE LET t == IF TypeKind(v.typ) = "Ptr" THEN Elem(v.typ) ELSE v.typ
         IN  TypeKind(t) = "Struct"

\* reflect.Value.Type panics on the zero Value, which ValueOf(nil) and the Elem of
\* a nil pointer are
newStructInfo(v) ==
    IF v.iface = "nil"
    THEN [panic |-> TRUE, typ |-> v.typ, value |-> {}]
    ELSE IF TypeKind(v.typ) = "Ptr"
         THEN IF v.isNil
              THEN [panic |-> TRUE, typ |-> Elem(v.typ), value |-> {}]
              ELSE [panic |-> FALSE, typ |-> Elem(v.typ), value |-> v.data]
         ELSE [panic |-> FALSE, typ |-> v.typ, value |-> v.data]

NoField == FieldDef("", "Invalid", "")

FieldOkAlways(s, name) ==
    [ok |-> TRUE, field |-> FieldDef(name, "String", "")]

FieldOk(s, name) ==
    LET fields == StructFields(s.typ.base)
        hit == {i \in DOMAIN fields : fields[i].name = name}
    IN  IF hit = {}
        THEN [ok |-> FALSE, field |-> NoField]
        ELSE [ok |-> TRUE, field |-> fields[CHOOSE i \in hit : TRUE]]

KindAlwaysString(f) == "String"

Kind(f) == f.field.kind

(***************************************************************************)
(* The core: validation                                                    *)
(***************************************************************************)
ValidationKinds == {"NotARecord", "MissingVersionField", "WrongVersionFieldType"}

CheckData(data) ==
    IF ~isStruct(data) THEN "NotARecord"
    ELSE LET st == newStructInfo(data)
         IN  IF st.panic THEN "panic"
             ELSE LET f == FieldOk(st, "Version")
                  IN  IF ~f.ok THEN "MissingVersionField"
                      ELSE IF Kind(f) # "String" THEN "WrongVersionFieldType"
                      ELSE "ok"

(***************************************************************************)
(* The core: the stored encoding (a JSON object, one record per file)      *)
(***************************************************************************)
\* a file: absent, text that is no JSON document, or a JSON object given as its
\* members <<key, JSON type, token>>
Absent == [exists |-> FALSE, wf |-> FALSE, obj |-> {}]

Malformed == [exists |-> TRUE, wf |-> FALSE, obj |-> {}]

Document(obj) == [exists |-> TRUE, wf |-> TRUE, obj |-> obj]

TimeTokens == {"0001-01-01T00:00:00Z", "2026-01-01T10:00:00Z", "2026-01-02T10:00:00Z"}

\* the key encoding/json gives a field: its tag, or its name
JsonName(f) == IF f.tag = "" THEN f.name ELSE f.tag

\* encoding/json matches keys exactly, then under case folding
Fold(s) ==
    CASE s = "Version" -> "version"
      [] s = "AppName" -> "appname"
      [] s = "Debug" -> "debug"
      [] s = "DatabaseURL" -> "databaseurl"
      [] s = "MaxRetries" -> "maxretries"
      [] s = "AllowedHosts" -> "allowedhosts"
      [] s = "Name" -> "name"
      [] s = "Port" -> "port"
      [] OTHER -> s

JsonType(kind, token) ==
    CASE kind = "String" -> "string"
      [] kind = "Time" -> "string"
      [] kind = "Int" -> "number"
      [] kind = "Bool" -> "bool"
      [] kind = "Slice" -> IF token = "nil" THEN "null" ELSE "array"
      [] OTHER -> "null"

Zero(kind) ==
    CASE kind = "String" -> ""
      [] kind = "Time" -> "0001-01-01T00:00:00Z"
      [] kind = "Int" -> "0"
      [] kind = "Bool" -> "false"
      [] kind = "Slice" -> "nil"
      [] OTHER -> ""

FieldValue(data, name) ==
    LET hit == {t \in data : t[1] = name}
    IN  IF hit = {} THEN <<name, "Invalid", "">> ELSE CHOOSE t \in hit : TRUE

\* json.Marshal of a struct: every field not tagged "-" under its key
Encode(base, data) ==
    LET fields == StructFields(base)
    IN  { <<JsonName(fields[i]),
            JsonType(fields[i].kind, FieldValue(data, fields[i].name)[3]),
            FieldValue(data, fields[i].name)[3]>> :
          i \in {j \in DOMAIN fields : fields[j].tag # "-"} }

Compatible(jtype, kind, token) ==
    CASE kind = "String" -> jtype = "string"
      [] kind = "Time" -> jtype = "string" /\ token \in TimeTokens
      [] kind = "Int" -> jtype = "number"
      [] kind = "Bool" -> jtype = "bool"
      [] kind = "Slice" -> jtype = "array"
      [] OTHER -> FALSE

KeyMatch(obj, name) ==
    LET exact == {t \in obj : t[1] = name}
    IN  IF exact # {} THEN exact ELSE {t \in obj : Fold(t[1]) = Fold(name)}

DecodeField(obj, f) ==
    LET m == KeyMatch(obj, JsonName(f))
    IN  IF f.tag = "-" \/ m = {} THEN <<f.name, f.kind, Zero(f.kind)>>
        ELSE LET t == CHOOSE x \in m : TRUE
             IN  IF t[2] = "null" THEN <<f.name, f.kind, Zero(f.kind)>>
                 ELSE IF Compatible(t[2], f.kind, t[3]) THEN <<f.name, f.kind, t[3]>>
                 ELSE <<f.name, "error", "">>

\* json.Unmarshal into new(T): unknown keys are skipped, missing ones stay zero
Decode(obj, base) ==
    LET fields == StructFields(base)
        data == {DecodeField(obj, fields[i]) : i \in DOMAIN fields}
    IN  [err |-> \E t \in data : t[2] = "error", data |-> data]

ZeroData(base) ==
    LET fields == StructFields(base)
    IN  {<<fields[i].name, fields[i].kind, Zero(fields[i].kind)>> : i \in DOMAIN fields}

(***************************************************************************)
(* The core: Save, Load, PeekVersion                                       *)
(***************************************************************************)
\* validation first; on success the encoding replaces the destination's content
SaveConfig(fsys, config, filename) ==
    LET v == CheckData(config)
    IN  IF v # "ok" THEN [res |-> v, fs |-> fsys]
        ELSE [res |-> "ok",
              fs |-> [fsys EXCEPT ![filename] =
                         Document(Encode(config.typ.base, config.data))]]

\* the produced record is a *T; whether it validates depends on T alone, so a
\* target shape without a textual Version fails whatever the file holds
LoadConfig(fsys, base, filename) ==
    LET c == fsys[filename]
        v == CheckData(PtrTo(StructVal(base, ZeroData(base))))
        d == Decode(c.obj, base)
    IN  IF ~c.exists THEN [res |-> "NotFound", data |-> {}]
        ELSE IF v # "ok" THEN [res |-> v, data |-> {}]
        ELSE IF ~c.wf \/ d.err THEN [res |-> "DecodeError", data |-> {}]
        ELSE [res |-> "ok", data |-> d.data]

\* decodes the Version member alone
GetVersion(fsys, filename) ==
    LET c == fsys[filename]
        m == KeyMatch(c.obj, "Version")
    IN  IF ~c.exists THEN [res |-> "NotFound", version |-> ""]
        ELSE IF ~c.wf THEN [res |-> "DecodeError", version |-> ""]
        ELSE IF m = {} THEN [res |-> "MissingVersion", version |-> ""]
        ELSE LET t == CHOOSE x \in m : TRUE
             IN  IF t[2] = "string" THEN [res |-> "ok", version |-> t[3]]
                 ELSE [res |-> "DecodeError", version |-> ""]

(***************************************************************************)
(* Records the examples build, and the values handed to the core           *)
(***************************************************************************)
\* basic example, main: config := &AppConfig{...}
appConfig ==
    StructVal("AppConfig",
        { <<"Version", "String", "1">>,
          <<"AppName", "String", "My CLI App">>,
          <<"Debug", "Bool", "false">>,
          <<"DatabaseURL", "String", "postgres://localhost/myapp">>,
          <<"MaxRetries", "Int", "3">>,
          <<"AllowedHosts", "Slice", "[localhost example.com]">> })

\* the same shape at version "2", with other field values (a nil slice among them)
appConfigNext ==
    StructVal("AppConfig",
        { <<"Version", "String", "2">>,
          <<"AppName", "String", "">>,
          <<"Debug", "Bool", "true">>,
          <<"DatabaseURL", "String", "postgres://db/next">>,
          <<"MaxRetries", "Int", "0">>,
          <<"AllowedHosts", "Slice", "nil">> })

\* basic example, main: invalidConfig := &InvalidConfig{...}
invalidConfig ==
    StructVal("InvalidConfig",
        { <<"Name", "String", "test">>, <<"Port", "Int", "8080">> })

numericConfig ==
    StructVal("NumericVersionConfig",
        { <<"Version", "Int", "2">>, <<"Name", "String", "n">> })

configStateVersionV1 == "1"

configStateVersionV2 == "2"

\* a version 1 state file's record
configV1 ==
    StructVal("ConfigV1",
        { <<"Version", "String", "1">>,
          <<"Roots", "Slice", "[a b]">>,
          <<"Checkpoint", "String", "cp1">> })

newConfigV1 ==
    StructVal("ConfigV1",
        { <<"Version", "String", configStateVersionV1>>,
          <<"Roots", "Slice", "[]">>,
          <<"Checkpoint", "String", "">> })

ConfigV2Val(version, created, updated, roots, total, remaining, paths) ==
    StructVal("ConfigV2",
        { <<"Version", "String", version>>,
          <<"CreateTime", "Time", created>>,
          <<"UpdateTime", "Time", updated>>,
          <<"Roots", "Slice", roots>>,
          <<"TotalCount", "Int", total>>,
          <<"RemainingCount", "Int", remaining>>,
          <<"Paths", "Slice", paths>> })

newConfigV2AsV1(now) ==
    ConfigV2Val(configStateVersionV1, now, now, "[]", "0", "0", "[]")

newConfigV2(now) ==
    ConfigV2Val(configStateVersionV2, now, now, "[]", "0", "0", "[]")

\* a state file written by a later release
configV3 ==
    ConfigV2Val("3", "2026-01-01T10:00:00Z", "2026-01-01T10:00:00Z", "[a b]", "1", "1",
                "[path/to/file0.txt]")

ValidRecords == {appConfig, appConfigNext, configV1, newConfigV2("2026-01-01T10:00:00Z"), configV3}

Records == ValidRecords \cup {invalidConfig, numericConfig}

\* every way a caller can hand a value to the core
Inputs ==
    Records
    \cup {PtrTo(r) : r \in Records}
    \cup {PtrTo(PtrTo(r)) : r \in {appConfig, invalidConfig}}
    \cup {NilPtr("AppConfig"), NilPtr("InvalidConfig"), UntypedNil}
    \cup {Plain("String", "hello"), Plain("Int", "42"), Plain("Slice", "[a b]"),
          Plain("Map", "map[a:1]"), PtrTo(Plain("String", "hello"))}

configFilename == "./.state-example-state.json"

CorePaths == {"app_config.json", "invalid.json"}

Paths == CorePaths \cup {configFilename}

\* what a path may hold before the program starts
InitContents ==
    {Absent, Malformed, Document({<<"name", "string", "test">>})}
    \cup {Document(Encode(r.typ.base, r.data)) : r \in ValidRecords}

NeverSaved == [saved |-> FALSE, removed |-> FALSE, base |-> "", data |-> {}]

Saved(base, data) == [saved |-> TRUE, removed |-> FALSE, base |-> base, data |-> data]

Removed == [saved |-> FALSE, removed |-> TRUE, base |-> "", data |-> {}]

NoCall ==
    [op |-> "none", arg |-> UntypedNil, base |-> "", path |-> "", res |-> "",
     data |-> {}, version |-> "", pre |-> Absent, post |-> Absent]

idle ==
    [pc |-> "idle", top |-> "", retTo |-> "", depth |-> 0, start |-> Absent,
     config |-> {}, loaded |-> {}, err |-> "", fromCache |-> FALSE,
     result |-> {}, resultErr |-> ""]

NilConfig == [isNil |-> TRUE, data |-> {}]

Cached(data) == [isNil |-> FALSE, data |-> data]

InitCommon ==
    /\ lastSaved = [p \in Paths |-> NeverSaved]
    /\ call = NoCall
    /\ configMutex = [writer |-> FALSE, readers |-> 0]
    /\ cachedConfigV1 = NilConfig
    /\ cachedConfigV2 = NilConfig
    /\ gor = [g \in Goroutines |-> idle]

Init ==
    /\ fs \in [Paths -> InitContents]
    /\ fs[configFilename] = Absent
    /\ InitCommon

(***************************************************************************)
(* The basic example as a caller of the core                               *)
(***************************************************************************)
migrationVars == <<configMutex, cachedConfigV1, cachedConfigV2, gor>>

DoCheckData(v) ==
    /\ call' = [NoCall EXCEPT !.op = "CheckData", !.arg = v, !.res = CheckData(v)]
    /\ UNCHANGED <<fs, lastSaved, migrationVars>>

DoSaveConfig(v, p) ==
    LET r == SaveConfig(fs, v, p)
    IN  /\ fs' = r.fs
        /\ lastSaved' = IF r.res = "ok"
                        THEN [lastSaved EXCEPT ![p] = Saved(v.typ.base, v.data)]
                        ELSE lastSaved
        /\ call' = [NoCall EXCEPT !.op = "SaveConfig", !.arg = v, !.path = p,
                                  !.res = r.res, !.pre = fs[p], !.post = r.fs[p]]
        /\ UNCHANGED migrationVars

DoLoadConfig(base, p) ==
    LET r == LoadConfig(fs, base, p)
    IN  /\ call' = [NoCall EXCEPT !.op = "LoadConfig", !.base = base, !.path = p,
                                  !.res = r.res, !.data = r.data,
                                  !.pre = fs[p], !.post = fs[p]]
        /\ UNCHANGED <<fs, lastSaved, migrationVars>>

DoGetVersion(p) ==
    LET r == GetVersion(fs, p)
    IN  /\ call' = [NoCall EXCEPT !.op = "GetVersion", !.path = p, !.res = r.res,
                                  !.version = r.version, !.pre = fs[p], !.post = fs[p]]
        /\ UNCHANGED <<fs, lastSaved, migrationVars>>

Next ==
    \/ \E v \in Inputs : DoCheckData(v)
    \/ \E v \in Inputs, p \in CorePaths : DoSaveConfig(v, p)
    \/ \E base \in StructNames, p \in CorePaths : DoLoadConfig(base, p)
    \/ \E p \in CorePaths : DoGetVersion(p)

Spec == Init /\ [][Next]_vars

(***************************************************************************)
(* The migration example: caches under configMutex                         *)
(***************************************************************************)
\* what time.Now() returns
Now == {"2026-01-02T10:00:00Z"}

\* len(config.Paths), as the decimal the encoding writes
LenToken(slice) ==
    CASE slice = "[path/to/file0.txt]" -> "1"
      [] OTHER -> "0"

\* make([]string, len(src)) and copy: never nil
CopyRoots(slice) == IF slice = "nil" THEN "[]" ELSE slice

WithField(data, name, token) ==
    {IF t[1] = name THEN <<t[1], t[2], token>> ELSE t : t \in data}

createConfig(now, roots) ==
    WithField(newConfigV2(now).data, "Roots", roots)

\* the config main saves at a checkpoint: one path recorded
checkpointConfig ==
    ConfigV2Val("2", "2026-01-01T10:00:00Z", "2026-01-01T10:00:00Z",
                "[root1 root2]", "1", "0", "[path/to/file0.txt]")

IsNotExistNever(err) == FALSE

IsNotExist(err) == err = "NotFound"

Set(g, f) == gor' = [gor EXCEPT ![g] = f]

At(g, pc) == gor[g].pc = pc

Record(op, base, res, data, version, pre, post) ==
    [NoCall EXCEPT !.op = op, !.base = base, !.path = configFilename, !.res = res,
                   !.data = data, !.version = version, !.pre = pre, !.post = post]

\* ---- calls a goroutine makes from main ----
CallLoadCreateMigrateConfig(g) ==
    /\ At(g, "idle")
    /\ Set(g, [idle EXCEPT !.pc = "lc_getversion", !.top = "loadCreateMigrateConfig",
                           !.start = fs[configFilename]])
    /\ UNCHANGED <<fs, lastSaved, call, configMutex, cachedConfigV1, cachedConfigV2>>

CallLoadConfigV1(g) ==
    /\ At(g, "idle")
    /\ Set(g, [idle EXCEPT !.pc = "l1_rlock", !.top = "loadConfigV1", !.retTo = "done"])
    /\ UNCHANGED <<fs, lastSaved, call, configMutex, cachedConfigV1, cachedConfigV2>>

CallLoadConfigV2(g) ==
    /\ At(g, "idle")
    /\ Set(g, [idle EXCEPT !.pc = "l2_rlock", !.top = "loadConfigV2", !.retTo = "done"])
    /\ UNCHANGED <<fs, lastSaved, call, configMutex, cachedConfigV1, cachedConfigV2>>

CallSaveConfigV2(g) ==
    /\ At(g, "idle")
    /\ Set(g, [idle EXCEPT !.pc = "s_lock", !.top = "saveConfigV2", !.retTo = "done",
                           !.config = checkpointConfig.data])
    /\ UNCHANGED <<fs, lastSaved, call, configMutex, cachedConfigV1, cachedConfigV2>>

CallClearConfig(g) ==
    /\ At(g, "idle")
    /\ Set(g, [idle EXCEPT !.pc = "c_lock", !.top = "clearConfig", !.retTo = "done"])
    /\ UNCHANGED <<fs, lastSaved, call, configMutex, cachedConfigV1, cachedConfigV2>>

Return(g) ==
    /\ At(g, "done")
    /\ Set(g, idle)
    /\ UNCHANGED <<fs, lastSaved, call, configMutex, cachedConfigV1, cachedConfigV2>>

\* ---- sync.RWMutex ----
RLock(g, to) ==
    /\ ~configMutex.writer
    /\ configMutex' = [configMutex EXCEPT !.readers = @ + 1]
    /\ Set(g, [gor[g] EXCEPT !.pc = to, !.fromCache = FALSE, !.err = "", !.loaded = {}])
    /\ UNCHANGED <<fs, lastSaved, call, cachedConfigV1, cachedConfigV2>>

RUnlock(g) ==
    /\ configMutex' = [configMutex EXCEPT !.readers = @ - 1]
    /\ Set(g, [gor[g] EXCEPT !.pc = gor[g].retTo])
    /\ UNCHANGED <<fs, lastSaved, call, cachedConfigV1, cachedConfigV2>>

Lock(g, to) ==
    /\ ~configMutex.writer
    /\ configMutex.readers = 0
    /\ configMutex' = [configMutex EXCEPT !.writer = TRUE]
    /\ Set(g, [gor[g] EXCEPT !.pc = to, !.err = ""])
    /\ UNCHANGED <<fs, lastSaved, call, cachedConfigV1, cachedConfigV2>>

Unlock(g) ==
    /\ configMutex' = [configMutex EXCEPT !.writer = FALSE]
    /\ Set(g, [gor[g] EXCEPT !.pc = gor[g].retTo])
    /\ UNCHANGED <<fs, lastSaved, call, cachedConfigV1, cachedConfigV2>>

\* ---- loadConfigV1 ----
loadConfigV1_RLock(g) == At(g, "l1_rlock") /\ RLock(g, "l1_check")

loadConfigV1_Cached(g) ==
    /\ At(g, "l1_check")
    /\ Set(g, IF ~cachedConfigV1.isNil
              THEN [gor[g] EXCEPT !.pc = "l1_runlock", !.loaded = cachedConfigV1.data,
                                  !.fromCache = TRUE]
              ELSE [gor[g] EXCEPT !.pc = "l1_load"])
    /\ UNCHANGED <<fs, lastSaved, call, configMutex, cachedConfigV1, cachedConfigV2>>

loadConfigV1_Load(g) ==
    /\ At(g, "l1_load")
    /\ LET r == LoadConfig(fs, "ConfigV1", configFilename)
       IN  /\ call' = Record("LoadConfig", "ConfigV1", r.res, r.data, "",
                             fs[configFilename], fs[configFilename])
           /\ Set(g, IF r.res # "ok"
                     THEN [gor[g] EXCEPT !.pc = "l1_runlock", !.err = r.res]
                     ELSE [gor[g] EXCEPT !.pc = "l1_store", !.loaded = r.data])
    /\ UNCHANGED <<fs, lastSaved, configMutex, cachedConfigV1, cachedConfigV2>>

loadConfigV1_Store(g) ==
    /\ At(g, "l1_store")
    /\ cachedConfigV1' = Cached(gor[g].loaded)
    /\ Set(g, [gor[g] EXCEPT !.pc = "l1_runlock"])
    /\ UNCHANGED <<fs, lastSaved, call, configMutex, cachedConfigV2>>

loadConfigV1_RUnlock(g) == At(g, "l1_runlock") /\ RUnlock(g)

\* ---- loadConfigV2 ----
loadConfigV2_RLock(g) == At(g, "l2_rlock") /\ RLock(g, "l2_check")

loadConfigV2_Cached(g) ==
    /\ At(g, "l2_check")
    /\ Set(g, IF ~cachedConfigV2.isNil
              THEN [gor[g] EXCEPT !.pc = "l2_runlock", !.loaded = cachedConfigV2.data,
                                  !.fromCache = TRUE]
              ELSE [gor[g] EXCEPT !.pc = "l2_load"])
    /\ UNCHANGED <<fs, lastSaved, call, configMutex, cachedConfigV1, cachedConfigV2>>

loadConfigV2_Load(g) ==
    /\ At(g, "l2_load")
    /\ LET r == LoadConfig(fs, "ConfigV2", configFilename)
       IN  /\ call' = Record("LoadConfig", "ConfigV2", r.res, r.data, "",
                             fs[configFilename], fs[configFilename])
           /\ Set(g, IF r.res # "ok"
                     THEN [gor[g] EXCEPT !.pc = "l2_runlock", !.err = r.res]
                     ELSE [gor[g] EXCEPT !.pc = "l2_store", !.loaded = r.data])
    /\ UNCHANGED <<fs, lastSaved, configMutex, cachedConfigV1, cachedConfigV2>>

loadConfigV2_Store(g) ==
    /\ At(g, "l2_store")
    /\ cachedConfigV2' = Cached(gor[g].loaded)
    /\ Set(g, [gor[g] EXCEPT !.pc = "l2_runlock"])
    /\ UNCHANGED <<fs, lastSaved, call, configMutex, cachedConfigV1>>

loadConfigV2_RUnlock(g) == At(g, "l2_runlock") /\ RUnlock(g)

\* ---- saveConfigV2 ----
saveConfigV2_Lock(g) == At(g, "s_lock") /\ Lock(g, "s_save")

saveConfigV2_Save(g) ==
    /\ At(g, "s_save")
    /\ \E now \in Now :
        LET paths == FieldValue(gor[g].config, "Paths")[3]
            config == WithField(WithField(gor[g].config, "UpdateTime", now),
                                "RemainingCount", LenToken(paths))
            r == SaveConfig(fs, PtrTo(StructVal("ConfigV2", config)), configFilename)
        IN  /\ fs' = r.fs
            /\ lastSaved' = IF r.res = "ok"
                            THEN [lastSaved EXCEPT ![configFilename] =
                                     Saved("ConfigV2", config)]
                            ELSE lastSaved
            /\ call' = Record("SaveConfig", "ConfigV2", r.res, {}, "",
                              fs[configFilename], r.fs[configFilename])
            /\ Set(g, IF r.res # "ok"
                      THEN [gor[g] EXCEPT !.pc = "s_unlock", !.config = config,
                                          !.err = r.res]
                      ELSE [gor[g] EXCEPT !.pc = "s_store", !.config = config])
    /\ UNCHANGED <<configMutex, cachedConfigV1, cachedConfigV2>>

saveConfigV2_Store(g) ==
    /\ At(g, "s_store")
    /\ cachedConfigV2' = Cached(gor[g].config)
    /\ Set(g, [gor[g] EXCEPT !.pc = "s_unlock"])
    /\ UNCHANGED <<fs, lastSaved, call, configMutex, cachedConfigV1>>

saveConfigV2_Unlock(g) == At(g, "s_unlock") /\ Unlock(g)

\* ---- clearConfig ----
clearConfig_Lock(g) == At(g, "c_lock") /\ Lock(g, "c_clear")

clearConfig_Clear(g) ==
    /\ At(g, "c_clear")
    /\ cachedConfigV1' = NilConfig
    /\ cachedConfigV2' = NilConfig
    /\ Set(g, [gor[g] EXCEPT !.pc = "c_remove"])
    /\ UNCHANGED <<fs, lastSaved, call, configMutex>>

clearConfig_Remove(g) ==
    /\ At(g, "c_remove")
    /\ IF ~fs[configFilename].exists
       THEN UNCHANGED <<fs, lastSaved>>
       ELSE /\ fs' = [fs EXCEPT ![configFilename] = Absent]
            /\ lastSaved' = [lastSaved EXCEPT ![configFilename] = Removed]
    /\ Set(g, [gor[g] EXCEPT !.pc = "c_unlock"])
    /\ UNCHANGED <<call, configMutex, cachedConfigV1, cachedConfigV2>>

clearConfig_Unlock(g) == At(g, "c_unlock") /\ Unlock(g)

\* ---- loadCreateMigrateConfig ----
roots == "[root1 root2]"

loadCreateMigrateConfig_GetVersion(g) ==
    /\ At(g, "lc_getversion")
    /\ LET r == GetVersion(fs, configFilename)
       IN  /\ call' = Record("GetVersion", "", r.res, {}, r.version,
                             fs[configFilename], fs[configFilename])
           /\ Set(g, IF r.res # "ok"
                     THEN IF IsNotExist(r.res)
                          THEN [gor[g] EXCEPT !.pc = "lc_create"]
                          ELSE [gor[g] EXCEPT !.pc = "done", !.resultErr = r.res]
                     ELSE IF r.version = configStateVersionV1
                          THEN [gor[g] EXCEPT !.pc = "l1_rlock", !.retTo = "lc_loadedV1"]
                     ELSE IF r.version = configStateVersionV2
                          THEN [gor[g] EXCEPT !.pc = "l2_rlock", !.retTo = "lc_loadedV2"]
                     ELSE [gor[g] EXCEPT !.pc = "done",
                                         !.resultErr = "unknown config version"])
    /\ UNCHANGED <<fs, lastSaved, configMutex, cachedConfigV1, cachedConfigV2>>

loadCreateMigrateConfig_Create(g) ==
    /\ At(g, "lc_create")
    /\ \E now \in Now :
        Set(g, [gor[g] EXCEPT !.pc = "s_lock", !.retTo = "lc_created",
                              !.config = createConfig(now, roots)])
    /\ UNCHANGED <<fs, lastSaved, call, configMutex, cachedConfigV1, cachedConfigV2>>

loadCreateMigrateConfig_Created(g) ==
    /\ At(g, "lc_created")
    /\ Set(g, IF gor[g].err # ""
              THEN [gor[g] EXCEPT !.pc = "done", !.resultErr = gor[g].err]
              ELSE [gor[g] EXCEPT !.pc = "done", !.result = gor[g].config])
    /\ UNCHANGED <<fs, lastSaved, call, configMutex, cachedConfigV1, cachedConfigV2>>

loadCreateMigrateConfig_Migrate(g) ==
    /\ At(g, "lc_loadedV1")
    /\ \E now \in Now :
        Set(g, IF gor[g].err # ""
               THEN [gor[g] EXCEPT !.pc = "done", !.resultErr = gor[g].err]
               ELSE [gor[g] EXCEPT !.pc = "s_lock", !.retTo = "lc_migrated",
                        !.config = WithField(newConfigV2(now).data, "Roots",
                                      CopyRoots(FieldValue(gor[g].loaded, "Roots")[3]))])
    /\ UNCHANGED <<fs, lastSaved, call, configMutex, cachedConfigV1, cachedConfigV2>>

loadCreateMigrateConfig_Recurse(g) ==
    /\ At(g, "lc_migrated")
    /\ gor[g].err = "" => gor[g].depth < MaxDepth
    /\ Set(g, IF gor[g].err # ""
              THEN [gor[g] EXCEPT !.pc = "done", !.resultErr = gor[g].err]
              ELSE [gor[g] EXCEPT !.pc = "lc_getversion", !.depth = @ + 1])
    /\ UNCHANGED <<fs, lastSaved, call, configMutex, cachedConfigV1, cachedConfigV2>>

loadCreateMigrateConfig_Loaded(g) ==
    /\ At(g, "lc_loadedV2")
    /\ Set(g, IF gor[g].err # ""
              THEN [gor[g] EXCEPT !.pc = "done", !.resultErr = gor[g].err]
              ELSE [gor[g] EXCEPT !.pc = "done", !.result = gor[g].loaded])
    /\ UNCHANGED <<fs, lastSaved, call, configMutex, cachedConfigV1, cachedConfigV2>>

Step(g) ==
    \/ CallLoadCreateMigrateConfig(g)
    \/ CallLoadConfigV1(g)
    \/ CallLoadConfigV2(g)
    \/ CallSaveConfigV2(g)
    \/ CallClearConfig(g)
    \/ Return(g)
    \/ loadConfigV1_RLock(g)
    \/ loadConfigV1_Cached(g)
    \/ loadConfigV1_Load(g)
    \/ loadConfigV1_Store(g)
    \/ loadConfigV1_RUnlock(g)
    \/ loadConfigV2_RLock(g)
    \/ loadConfigV2_Cached(g)
    \/ loadConfigV2_Load(g)
    \/ loadConfigV2_Store(g)
    \/ loadConfigV2_RUnlock(g)
    \/ saveConfigV2_Lock(g)
    \/ saveConfigV2_Save(g)
    \/ saveConfigV2_Store(g)
    \/ saveConfigV2_Unlock(g)
    \/ clearConfig_Lock(g)
    \/ clearConfig_Clear(g)
    \/ clearConfig_Remove(g)
    \/ clearConfig_Unlock(g)
    \/ loadCreateMigrateConfig_GetVersion(g)
    \/ loadCreateMigrateConfig_Create(g)
    \/ loadCreateMigrateConfig_Created(g)
    \/ loadCreateMigrateConfig_Migrate(g)
    \/ loadCreateMigrateConfig_Recurse(g)
    \/ loadCreateMigrateConfig_Loaded(g)

InitMigration ==
    /\ fs \in [Paths -> InitContents]
    /\ \A p \in CorePaths : fs[p] = Absent
    /\ InitCommon

\* one call at a time: every call is made from the main goroutine
main == 1

NextSequential == Step(main)

SpecMigration == InitMigration /\ [][NextSequential]_vars

\* goroutines interleave at every step
NextConcurrent == \E g \in Goroutines : Step(g)

SpecConcurrent == InitMigration /\ [][NextConcurrent]_vars

(***************************************************************************)
(* Properties of the core (specification Spec)                             *)
(***************************************************************************)
VersionOf(data) == FieldValue(data, "Version")[3]

HasField(base, name) ==
    \E i \in DOMAIN StructFields(base) : StructFields(base)[i].name = name

HasTextualField(base, name) ==
    \E i \in DOMAIN StructFields(base) :
        StructFields(base)[i].name = name /\ StructFields(base)[i].kind = "String"

\* C1: a LoadConfig of the shape last saved to a path succeeds and returns the
\* saved record field for field, whatever the path held before that save
C1_LoadReturnsSaved ==
    (/\ call.op = "LoadConfig"
     /\ lastSaved[call.path].saved
     /\ call.base = lastSaved[call.path].base)
    => (call.res = "ok" /\ call.data = lastSaved[call.path].data)

C1_Witness ==
    /\ call.op = "LoadConfig"
    /\ call.path = "app_config.json"
    /\ lastSaved[call.path].saved
    /\ call.base = "ConfigV1"
    /\ call.res = "ok"
    /\ call.data = configV1.data

\* C2: a SaveConfig of a value CheckData rejects returns that validation error and
\* leaves the destination as it was (the same content, or still absent); the
\* basic example's InvalidConfig is rejected for its missing Version field
C2_InvalidSaveLeavesDestination ==
    call.op = "SaveConfig" =>
        /\ CheckData(call.arg) \in ValidationKinds =>
               (call.res = CheckData(call.arg) /\ call.post = call.pre)
        /\ (call.arg = PtrTo(invalidConfig) \/ call.arg = invalidConfig) =>
               (call.res = "MissingVersionField" /\ call.post = call.pre)

C2_Witness ==
    /\ call.op = "SaveConfig"
    /\ call.arg = PtrTo(invalidConfig)
    /\ call.res = "MissingVersionField"
    /\ call.pre.exists
    /\ call.pre.wf
    /\ call.post = call.pre

\* C3: CheckData answers ok exactly for a struct, or a pointer to one, with a
\* textual Version field, and otherwise one of the three kinds, by the first
\* condition that is not met
IsRecord(v) ==
    /\ v.iface = "typed"
    /\ ~v.isNil
    /\ v.typ.ptr <= 1
    /\ v.typ.base \in StructNames

Classified(v) ==
    IF ~IsRecord(v) THEN "NotARecord"
    ELSE IF ~HasField(v.typ.base, "Version") THEN "MissingVersionField"
    ELSE IF ~HasTextualField(v.typ.base, "Version") THEN "WrongVersionFieldType"
    ELSE "ok"

C3_ValidateClassifies ==
    call.op = "CheckData" => call.res = Classified(call.arg)

\* C4: GetVersion of a path returns the Version of the record last saved there,
\* whatever that record's shape
C4_PeekReturnsSavedVersion ==
    (call.op = "GetVersion" /\ lastSaved[call.path].saved)
    => (call.res = "ok" /\ call.version = VersionOf(lastSaved[call.path].data))

C4_Witness ==
    /\ call.op = "GetVersion"
    /\ lastSaved[call.path].saved
    /\ lastSaved[call.path].base = "AppConfig"
    /\ call.pre = Document(Encode("AppConfig", appConfigNext.data))
    /\ call.version = "2"

C7_ValidateNeverPanics ==
    call.op = "CheckData" =>
        /\ call.res \in ValidationKinds \cup {"ok"}
        /\ call.arg.isNil => call.res = "NotARecord"
        /\ call.arg.typ.ptr >= 2 => call.res = "NotARecord"

(***************************************************************************)
(* Properties of the migration example                                     *)
(***************************************************************************)
\* what GetVersion answered for the content a call started on
StartVersion(g) == GetVersion([p \in Paths |-> gor[g].start], configFilename)

InLoadCreateMigrateConfig(g) == gor[g].top = "loadCreateMigrateConfig"

Finished(g, top) == gor[g].pc = "done" /\ gor[g].top = top

\* C5 (SpecMigration): GetVersion and LoadConfig of a path that holds no file
\* answer NotFound and create nothing, and loadCreateMigrateConfig takes that
\* answer as the case to create the first configuration
C5_AbsentIsNotFound ==
    /\ (call.op \in {"GetVersion", "LoadConfig"} /\ ~call.pre.exists) =>
           (call.res = "NotFound" /\ ~call.post.exists)
    /\ \A g \in Goroutines :
           (Finished(g, "loadCreateMigrateConfig") /\ ~gor[g].start.exists) =>
               (gor[g].resultErr = "" /\ gor[g].result # {})

C5_Witness ==
    /\ call.op = "GetVersion"
    /\ call.res = "NotFound"
    /\ lastSaved[configFilename].removed
    /\ gor[main].pc = "lc_create"

\* C8 (SpecMigration): called with no other call in progress on a file that is
\* absent or holds version "1" or "2", loadCreateMigrateConfig never stalls,
\* recurses at most once and returns a version "2" record, which is then the
\* version GetVersion reports; on any other version it returns an error and the
\* file is as it was
C8_MigrationEndsAtV2 ==
    \A g \in Goroutines :
        InLoadCreateMigrateConfig(g) =>
            /\ gor[g].depth <= 1
            /\ gor[g].pc # "done" => ENABLED Step(g)
            /\ (/\ gor[g].pc = "done"
                /\ \/ StartVersion(g).res = "NotFound"
                   \/ /\ StartVersion(g).res = "ok"
                      /\ StartVersion(g).version \in {"1", "2"})
               => /\ gor[g].resultErr = ""
                  /\ VersionOf(gor[g].result) = "2"
                  /\ GetVersion(fs, configFilename).res = "ok"
                  /\ GetVersion(fs, configFilename).version = "2"
            /\ (/\ gor[g].pc = "done"
                /\ StartVersion(g).res = "ok"
                /\ StartVersion(g).version \notin {"1", "2"})
               => /\ gor[g].resultErr # ""
                  /\ fs[configFilename] = gor[g].start

C8_Witness ==
    /\ Finished(main, "loadCreateMigrateConfig")
    /\ StartVersion(main).res = "ok"
    /\ StartVersion(main).version = "1"
    /\ gor[main].depth = 1
    /\ VersionOf(gor[main].result) = "2"
    /\ GetVersion(fs, configFilename).version = "2"

\* C9 (SpecConcurrent): no goroutine is about to write cachedConfigV1 or
\* cachedConfigV2 while another is about to read or write the same variable
Reads(g) ==
    CASE gor[g].pc = "l1_check" -> {"cachedConfigV1"}
      [] gor[g].pc = "l2_check" -> {"cachedConfigV2"}
      [] OTHER -> {}

Writes(g) ==
    CASE gor[g].pc = "l1_store" -> {"cachedConfigV1"}
      [] gor[g].pc = "l2_store" -> {"cachedConfigV2"}
      [] gor[g].pc = "s_store" -> {"cachedConfigV2"}
      [] gor[g].pc = "c_clear" -> {"cachedConfigV1", "cachedConfigV2"}
      [] OTHER -> {}

C9_NoDataRace ==
    \A g, h \in Goroutines :
        g # h => Writes(g) \cap (Reads(h) \cup Writes(h)) = {}

\* C10 (SpecMigration): a record loadConfigV1 or loadConfigV2 returns from its
\* cache carries the version GetVersion reports for the file at that moment,
\* whenever GetVersion reports one
C10_CacheNeverStale ==
    \A g \in Goroutines :
        (/\ gor[g].pc = "done"
         /\ gor[g].top \in {"loadConfigV1", "loadConfigV2"}
         /\ gor[g].fromCache)
        => (GetVersion(fs, configFilename).res = "ok" =>
               GetVersion(fs, configFilename).version = VersionOf(gor[g].loaded))

====
